---- MODULE Spec2Model ----
(***************************************************************************)
(* Order-tracking hook (useOrderTracking) of the customer portal: the      *)
(* search / subscribe / merge / release life cycle of one mounted hook     *)
(* instance, the change feed's channels, the in-flight handleSearch calls  *)
(* and the pending auto-clear timers of the "updating" indicator.          *)
(* With it, the logout of the page that uses the hook, and the Map         *)
(* component with its shared SDK load.                                     *)
(***************************************************************************)
EXTENDS Integers, Sequences, FiniteSets, TLC

VARIABLES
    mounted,          \* the component using the hook is mounted
    loading,          \* useState(false)
    searched,         \* useState(false)
    trackingData,     \* useState<TrackingData | null>(null)
    isUpdating,       \* useState(false)
    subscriptionRef,  \* useRef<RealtimeChannel | null>(null): 0 is null, else an index of channels
    channels,         \* every channel supabase.channel() created, each still subscribed (active) or removed
    calls,            \* the handleSearch invocations that passed the blank check, in submission order
    timers,           \* pending setTimeout(() => setIsUpdating(false), 1500) callbacks: their delays, oldest first
    signOut,          \* onLogout of the page: "idle", or "pending" while supabase.auth.signOut() is awaited
    env,              \* import.meta.env: whether VITE_AMAP_KEY and VITE_AMAP_SECURITY_CODE are set
    loaderPromise,    \* the module-level promise of map.tsx: "null", "pending", "resolved" or "rejected"
    loads,            \* number of AMapLoader.load calls made so far
    mapMounted,       \* a Map component is mounted
    mapLoading,       \* useState(true) of the mounted Map
    runs,             \* every run of the Map's effect: its closure (destroyed, animationFrameId) and position
    maps,             \* every AMap.Map constructed: the run that made it, and whether it was destroyed
    mapInstanceRef,   \* useRef<AMapMapInstance | null>(null): 0 is null, else an index of maps
    notified,         \* what the latest step handed to showMessage
    lastOp            \* the latest step and its input

\* The state of the hook, of the page's logout, and of the Map component
hookVars == <<mounted, loading, searched, trackingData, isUpdating, subscriptionRef,
              channels, calls, timers>>
mapVars == <<env, loaderPromise, loads, mapMounted, mapLoading, runs, maps,
             mapInstanceRef>>

vars == <<hookVars, signOut, mapVars, notified, lastOp>>

----------------------------------------------------------------------------
(* Bounds of the model *)

MaxSearches == 2
MaxPending == 2
MaxTrajectories == 2
MaxMounts == 2

(* Program constants *)

UpdateDelayMs == 1500

----------------------------------------------------------------------------
(* Values *)

NULL == [isNull |-> TRUE]

Whitespace == {" ", "\t"}

\* Order numbers the user may submit, as sequences of characters.
OrderNumbers ==
    { <<>>, <<" ", "\t">>, <<" ", "A">>, <<"B", " ">> }

RECURSIVE TrimStart(_)
TrimStart(s) ==
    IF s # <<>> /\ Head(s) \in Whitespace THEN TrimStart(Tail(s)) ELSE s

RECURSIVE TrimEnd(_)
TrimEnd(s) ==
    IF s # <<>> /\ s[Len(s)] \in Whitespace
    THEN TrimEnd(SubSeq(s, 1, Len(s) - 1))
    ELSE s

\* String.prototype.trim
Trim(s) == TrimEnd(TrimStart(s))

\* Variant of the blank check that forgets the trim.
NoTrimBlank(orderNumber) == orderNumber = <<>>

\* !orderNumber.trim()
IsBlank(orderNumber) == Trim(orderNumber) = <<>>

OrderIds == {1, 2}
Statuses == {"shipping", "delivered"}

Orders == [id : OrderIds, status : Statuses]

\* The orders the store holds when a search looks one up.
StoredOrders == [id : OrderIds, status : {"shipping"}]

\* The order number of each order the store may hold.
NumberOf(id) == IF id = 1 THEN <<"A">> ELSE <<"B">>

\* Two timestamps: an older and a newer one.
Timestamps == {1, 2}

TrajectoryPoints(orderId) == [order_id : {orderId}, timestamp : Timestamps]

OrderItems(orderId) == [order_id : {orderId}, quantity : {2}, subtotal : {30}]

IsNewestFirst(l) == \A i \in 1 .. Len(l) - 1 : l[i].timestamp >= l[i + 1].timestamp

SeqsUpTo(S, n) == UNION { [1 .. k -> S] : k \in 0 .. n }

----------------------------------------------------------------------------
(* The order store, as handleSearch sees it *)

\* What a failed store call hands back as `error`: a plain PostgrestError object,
\* or an Error instance.
StoreErrors ==
    { [instanceOfError |-> FALSE],
      [instanceOfError |-> TRUE, message |-> "store-error-message"] }

\* rpc("get_order_by_number", {p_order_number}).maybeSingle()
RpcResults(p_order_number) ==
    { [error |-> e, data |-> NULL] : e \in StoreErrors }
    \cup { [error |-> NULL, data |-> d] :
             d \in {NULL} \cup { o \in StoredOrders : NumberOf(o.id) = p_order_number } }

\* from("logistics_trajectories").select("*").eq("order_id", id)
\*   .order("timestamp", {ascending: false})
TrajectoryResults(orderId) ==
    { [error |-> [instanceOfError |-> FALSE], data |-> NULL] }
    \cup { [error |-> NULL, data |-> [rows |-> l]] :
             l \in { x \in SeqsUpTo(TrajectoryPoints(orderId), MaxTrajectories - 1) :
                       IsNewestFirst(x) } }

\* from("order_items").select("*").eq("order_id", id).order("created_at", ...)
ItemResults(orderId) ==
    { [error |-> [instanceOfError |-> FALSE], data |-> NULL] }
    \cup { [error |-> NULL, data |-> [rows |-> l]] :
             l \in SeqsUpTo(OrderItems(orderId), 1) }

\* (result.data as T[]) || []
RowsOrEmpty(result) == IF result.data = NULL THEN <<>> ELSE result.data.rows

\* error instanceof Error ? error.message : fallback text
ErrorMessage(error) ==
    IF error.instanceOfError THEN error.message ELSE "query-failed-retry-later"

NotFoundError == [instanceOfError |-> TRUE, message |-> "order-not-found-check-number"]

Notice(type, content) == [type |-> type, content |-> content]

----------------------------------------------------------------------------
(* The change feed's channels.  removeChannel takes effect at once: a       *)
(* removed channel delivers no further event, and a channel delivers only  *)
(* events that match its filter (the order id it was created for).         *)

Active(ch) == ch.active

ChannelIds == 1 .. Len(channels)

ActiveChannels == { c \in ChannelIds : Active(channels[c]) }

\* supabase.removeChannel(channel): the channel is unsubscribed and delivers no
\* further event; on a channel already removed it changes nothing.
RemoveChannel(chs, c) == [chs EXCEPT ![c].active = FALSE]

\* if (subscriptionRef.current) supabase.removeChannel(subscriptionRef.current)
ReleaseHeld(chs, ref) == IF ref # 0 THEN RemoveChannel(chs, ref) ELSE chs

\* Variant of subscribeToOrderUpdates that forgets to remove the held channel.
SubscribeWithoutRelease(chs, ref, orderId) ==
    Append(chs, [orderId |-> orderId, active |-> TRUE])

\* subscribeToOrderUpdates: the channels after it ran; the new one is the last
SubscribeChannels(chs, ref, orderId) ==
    Append(ReleaseHeld(chs, ref), [orderId |-> orderId, active |-> TRUE])

----------------------------------------------------------------------------
(* The listeners of a channel *)

\* Variant of the UPDATE updater that builds the session anew and loses the list.
UpdateClearsLists(prev, newOrder) ==
    IF prev = NULL THEN NULL
    ELSE [prev EXCEPT !.order = newOrder, !.trajectories = <<>>]

\* UPDATE handler: setTrackingData(prev => ...)
OnOrderUpdate(prev, newOrder) ==
    IF prev = NULL THEN NULL ELSE [prev EXCEPT !.order = newOrder]

\* Variant of the INSERT updater that puts the new point last.
InsertAppends(prev, newTrajectory) ==
    IF prev = NULL THEN NULL
    ELSE [prev EXCEPT !.trajectories = Append(@, newTrajectory)]

\* INSERT handler: setTrackingData(prev => ...)
OnTrajectoryInsert(prev, newTrajectory) ==
    IF prev = NULL THEN NULL
    ELSE [prev EXCEPT !.trajectories = <<newTrajectory>> \o @]

\* What each handler hands to showMessage.
UpdateNotices == <<>>
InsertNotices == << Notice("success", "new-logistics-update") >>

----------------------------------------------------------------------------
(* Initial state: the hook right after its first render.  The state        *)
(* variables record what the code hands to the setters, also after the     *)
(* component has unmounted.                                                *)

Init ==
    /\ mounted = TRUE
    /\ loading = FALSE
    /\ searched = FALSE
    /\ trackingData = NULL
    /\ isUpdating = FALSE
    /\ subscriptionRef = 0
    /\ channels = <<>>
    /\ calls = <<>>
    /\ timers = <<>>
    /\ signOut = "idle"
    /\ env = [key |-> TRUE, securityCode |-> TRUE]
    /\ loaderPromise = "null"
    /\ loads = 0
    /\ mapMounted = FALSE
    /\ mapLoading = TRUE
    /\ runs = <<>>
    /\ maps = <<>>
    /\ mapInstanceRef = 0
    /\ notified = <<>>
    /\ lastOp = [op |-> "init"]

----------------------------------------------------------------------------
(* handleSearch *)

\* A handleSearch invocation that has returned: its locals are gone.
Done == [pc |-> "done"]

\* handleSearch up to its first await: the blank check, the three setters, and
\* the order lookup issued.
HandleSearch(orderNumber) ==
    /\ mounted
    /\ lastOp' = [op |-> "handleSearch", orderNumber |-> orderNumber]
    /\ notified' = <<>>
    /\ IF IsBlank(orderNumber)
       THEN UNCHANGED <<loading, searched, trackingData, calls>>
       ELSE /\ Len(calls) < MaxSearches
            /\ loading' = TRUE
            /\ searched' = TRUE
            /\ trackingData' = NULL
            /\ calls' = Append(calls, [p_order_number |-> Trim(orderNumber),
                                       pc |-> "lookup",
                                       orderData |-> NULL])
    /\ UNCHANGED <<mounted, isUpdating, subscriptionRef, channels, timers>>
    /\ UNCHANGED <<signOut, mapVars>>

\* A handleSearch without the finally block: setLoading(false) is reached
\* only after the session was published.
LookupSettlesNoFinally(i, result) ==
    /\ calls[i].pc = "lookup"
    /\ lastOp' = [op |-> "lookupSettles"]
    /\ IF result.error # NULL \/ result.data = NULL
       THEN /\ notified' =
                << Notice("error",
                          ErrorMessage(IF result.error # NULL
                                       THEN result.error ELSE NotFoundError)) >>
            /\ calls' = [calls EXCEPT ![i] = Done]
       ELSE /\ notified' = <<>>
            /\ calls' = [calls EXCEPT ![i].pc = "fetch",
                                      ![i].orderData = result.data]
    /\ UNCHANGED <<mounted, loading, searched, trackingData, isUpdating,
                   subscriptionRef, channels, timers>>
    /\ UNCHANGED <<signOut, mapVars>>

\* The order lookup of call i settles. An error or a missing order is thrown,
\* caught (showMessage "error") and the finally block clears loading; a found
\* order issues the two secondary fetches.
LookupSettles(i, result) ==
    /\ calls[i].pc = "lookup"
    /\ lastOp' = [op |-> "lookupSettles"]
    /\ IF result.error # NULL \/ result.data = NULL
       THEN /\ notified' =
                << Notice("error",
                          ErrorMessage(IF result.error # NULL
                                       THEN result.error ELSE NotFoundError)) >>
            /\ loading' = FALSE
            /\ calls' = [calls EXCEPT ![i] = Done]
       ELSE /\ notified' = <<>>
            /\ calls' = [calls EXCEPT ![i].pc = "fetch",
                                      ![i].orderData = result.data]
            /\ UNCHANGED loading
    /\ UNCHANGED <<mounted, searched, trackingData, isUpdating, subscriptionRef,
                   channels, timers>>
    /\ UNCHANGED <<signOut, mapVars>>

\* A handleSearch that throws the error of a failed secondary fetch, as it
\* throws the error of the lookup, instead of logging it.
FetchesSettleFatal(i, trajectoryResult, itemsResult) ==
    /\ calls[i].pc = "fetch"
    /\ lastOp' = [op |-> "fetchesSettle", trajectoriesResult |-> trajectoryResult,
                  orderItemsResult |-> itemsResult]
    /\ IF trajectoryResult.error # NULL \/ itemsResult.error # NULL
       THEN /\ notified' = << Notice("error", "query-failed-retry-later") >>
            /\ UNCHANGED <<trackingData, channels, subscriptionRef>>
       ELSE /\ notified' = <<>>
            /\ trackingData' = [order |-> calls[i].orderData,
                                trajectories |-> trajectoryResult.data.rows,
                                orderItems |-> itemsResult.data.rows]
            /\ channels' = SubscribeChannels(channels, subscriptionRef,
                                             calls[i].orderData.id)
            /\ subscriptionRef' = Len(channels')
    /\ loading' = FALSE
    /\ calls' = [calls EXCEPT ![i] = Done]
    /\ UNCHANGED <<mounted, searched, isUpdating, timers>>
    /\ UNCHANGED <<signOut, mapVars>>

\* Promise.all of the two secondary fetches of call i settles: the errors are
\* logged only, the session is published, subscribed to, and the finally
\* block clears loading.
FetchesSettle(i, trajectoryResult, itemsResult) ==
    /\ calls[i].pc = "fetch"
    /\ lastOp' = [op |-> "fetchesSettle", trajectoriesResult |-> trajectoryResult,
                  orderItemsResult |-> itemsResult]
    /\ notified' = <<>>
    /\ trackingData' = [order |-> calls[i].orderData,
                        trajectories |-> RowsOrEmpty(trajectoryResult),
                        orderItems |-> RowsOrEmpty(itemsResult)]
    /\ channels' = SubscribeChannels(channels, subscriptionRef, calls[i].orderData.id)
    /\ subscriptionRef' = Len(channels')
    /\ loading' = FALSE
    /\ calls' = [calls EXCEPT ![i] = Done]
    /\ UNCHANGED <<mounted, searched, isUpdating, timers>>
    /\ UNCHANGED <<signOut, mapVars>>

----------------------------------------------------------------------------
(* Change events, delivered by a channel that has not been removed.  Each   *)
(* handler sets a timer; an event is taken only while fewer than           *)
(* MaxPending timers are pending.                                          *)

\* UPDATE on orders with id = the channel's order id
DeliverUpdate(c, newOrder) ==
    /\ Active(channels[c])
    /\ Len(timers) < MaxPending
    /\ newOrder.id = channels[c].orderId
    /\ lastOp' = [op |-> "UPDATE", channel |-> c, record |-> newOrder,
                  wasUpdating |-> isUpdating]
    /\ isUpdating' = TRUE
    /\ trackingData' = OnOrderUpdate(trackingData, newOrder)
    /\ notified' = UpdateNotices
    /\ timers' = Append(timers, UpdateDelayMs)
    /\ UNCHANGED <<mounted, loading, searched, subscriptionRef, channels, calls>>
    /\ UNCHANGED <<signOut, mapVars>>

\* INSERT on logistics_trajectories with order_id = the channel's order id
DeliverInsert(c, newTrajectory) ==
    /\ Active(channels[c])
    /\ Len(timers) < MaxPending
    /\ trackingData # NULL => Len(trackingData.trajectories) < MaxTrajectories
    /\ newTrajectory.order_id = channels[c].orderId
    /\ lastOp' = [op |-> "INSERT", channel |-> c, record |-> newTrajectory,
                  wasUpdating |-> isUpdating]
    /\ isUpdating' = TRUE
    /\ trackingData' = OnTrajectoryInsert(trackingData, newTrajectory)
    /\ notified' = InsertNotices
    /\ timers' = Append(timers, UpdateDelayMs)
    /\ UNCHANGED <<mounted, loading, searched, subscriptionRef, channels, calls>>
    /\ UNCHANGED <<signOut, mapVars>>

----------------------------------------------------------------------------
(* The auto-clear timers.  Time is not counted: every timer has the same   *)
(* delay, so the timers fire in the order they were set, each at any       *)
(* moment after its event; the timer of the latest event is pending for    *)
(* the UpdateDelayMs that follow that event.                               *)

\* The oldest pending timer fires: () => setIsUpdating(false). Every timer is
\* set with the same delay, so the timers fire in the order they were set.
TimerFires ==
    /\ timers # <<>>
    /\ timers' = Tail(timers)
    /\ isUpdating' = FALSE
    /\ lastOp' = [op |-> "timerFires"]
    /\ notified' = <<>>
    /\ UNCHANGED <<mounted, loading, searched, trackingData, subscriptionRef,
                   channels, calls>>
    /\ UNCHANGED <<signOut, mapVars>>

----------------------------------------------------------------------------
(* Release *)

\* A cleanupSubscription that also resets what the hook displays
CleanupResetsSession ==
    /\ mounted
    /\ channels' = ReleaseHeld(channels, subscriptionRef)
    /\ loading' = FALSE
    /\ searched' = FALSE
    /\ trackingData' = NULL
    /\ lastOp' = [op |-> "cleanupSubscription"]
    /\ notified' = <<>>
    /\ UNCHANGED <<mounted, isUpdating, subscriptionRef, calls, timers>>
    /\ UNCHANGED <<signOut, mapVars>>

\* cleanupSubscription, called by the page on logout
CleanupSubscription ==
    /\ mounted
    /\ channels' = ReleaseHeld(channels, subscriptionRef)
    /\ lastOp' = [op |-> "cleanupSubscription"]
    /\ notified' = <<>>
    /\ UNCHANGED <<mounted, loading, searched, trackingData, isUpdating,
                   subscriptionRef, calls, timers>>
    /\ UNCHANGED <<signOut, mapVars>>

\* The cleanup of the hook's effect, run when the component unmounts
Unmount ==
    /\ mounted
    /\ mounted' = FALSE
    /\ channels' = ReleaseHeld(channels, subscriptionRef)
    /\ lastOp' = [op |-> "unmount"]
    /\ notified' = <<>>
    /\ UNCHANGED <<loading, searched, trackingData, isUpdating, subscriptionRef,
                   calls, timers>>
    /\ UNCHANGED <<signOut, mapVars>>

----------------------------------------------------------------------------

Next ==
    \/ \E n \in OrderNumbers : HandleSearch(n)
    \/ \E i \in 1 .. Len(calls) :
         /\ calls[i].pc = "lookup"
         /\ \E r \in RpcResults(calls[i].p_order_number) : LookupSettles(i, r)
    \/ \E i \in 1 .. Len(calls) :
         /\ calls[i].pc = "fetch"
         /\ \E t \in TrajectoryResults(calls[i].orderData.id),
               it \in ItemResults(calls[i].orderData.id) : FetchesSettle(i, t, it)
    \/ \E c \in ChannelIds :
         \E o \in Orders : DeliverUpdate(c, o)
    \/ \E c \in ChannelIds :
         \E t \in TrajectoryPoints(channels[c].orderId) : DeliverInsert(c, t)
    \/ TimerFires
    \/ CleanupSubscription
    \/ Unmount

Spec == Init /\ [][Next]_vars

----------------------------------------------------------------------------
(* The page that uses the hook: searches and logout.  onLogout releases    *)
(* the subscription and then awaits the sign-out; one sign-out is awaited  *)
(* at a time.  The change events and the timers are left out of this       *)
(* specification: they touch neither loading, the calls nor the channels'  *)
(* subscriptions.                                                          *)

\* onLogout up to its await: cleanupSubscription(), then handleLogout() issues
\* supabase.auth.signOut().
OnLogout ==
    /\ mounted
    /\ signOut = "idle"
    /\ channels' = ReleaseHeld(channels, subscriptionRef)
    /\ signOut' = "pending"
    /\ lastOp' = [op |-> "onLogout"]
    /\ notified' = <<>>
    /\ UNCHANGED <<mounted, loading, searched, trackingData, isUpdating,
                   subscriptionRef, calls, timers>>
    /\ UNCHANGED mapVars

\* The sign-out settles. A failure is shown as an error and the page stays; a
\* success is shown and navigates to /login, which unmounts the page: the
\* cleanup of the hook's effect runs.
SignOutSettles(ok) ==
    /\ signOut = "pending"
    /\ signOut' = "idle"
    /\ lastOp' = [op |-> "signOutSettles", ok |-> ok]
    /\ IF ok
       THEN /\ notified' = << Notice("success", "logged-out") >>
            /\ mounted' = FALSE
            /\ channels' = IF mounted THEN ReleaseHeld(channels, subscriptionRef)
                                      ELSE channels
       ELSE /\ notified' = << Notice("error", "logout-failed-retry") >>
            /\ UNCHANGED <<mounted, channels>>
    /\ UNCHANGED <<loading, searched, trackingData, isUpdating, subscriptionRef,
                   calls, timers>>
    /\ UNCHANGED mapVars

PageNext ==
    \/ \E n \in OrderNumbers : HandleSearch(n)
    \/ \E i \in 1 .. Len(calls) :
         /\ calls[i].pc = "lookup"
         /\ \E r \in RpcResults(calls[i].p_order_number) : LookupSettles(i, r)
    \/ \E i \in 1 .. Len(calls) :
         /\ calls[i].pc = "fetch"
         /\ \E t \in TrajectoryResults(calls[i].orderData.id),
               it \in ItemResults(calls[i].orderData.id) : FetchesSettle(i, t, it)
    \/ OnLogout
    \/ \E ok \in BOOLEAN : SignOutSettles(ok)
    \/ Unmount

\* A store call that was issued returns: the lookup and the secondary fetches
\* of every call settle, and so does the sign-out.
LookupReturns ==
    \E i \in 1 .. Len(calls) :
       /\ calls[i].pc = "lookup"
       /\ \E r \in RpcResults(calls[i].p_order_number) : LookupSettles(i, r)

FetchesReturn ==
    \E i \in 1 .. Len(calls) :
       /\ calls[i].pc = "fetch"
       /\ \E t \in TrajectoryResults(calls[i].orderData.id),
             it \in ItemResults(calls[i].orderData.id) : FetchesSettle(i, t, it)

SignOutReturns == \E ok \in BOOLEAN : SignOutSettles(ok)

PageSpec ==
    /\ Init
    /\ [][PageNext]_vars
    /\ WF_vars(LookupReturns)
    /\ WF_vars(FetchesReturn)
    /\ WF_vars(SignOutReturns)

----------------------------------------------------------------------------
(* The Map component (components/map.tsx).  One Map is mounted at a time;  *)
(* each mount runs the effect once, and the run's closure keeps its own    *)
(* destroyed flag and animation frame.  loaderPromise belongs to the       *)
(* module and outlives every mount.                                        *)

\* The builds the page can be served with: each credential set or missing.
Envs == [key : BOOLEAN, securityCode : BOOLEAN]

\* A load per mount: the promise kept in the component, not in the module.
StartsLoadEveryMount(promise, key) == key

\* if (!loaderPromise && key) loaderPromise = AMapLoader.load(...)
StartsLoad(promise, key) == promise = "null" /\ key

\* An initMap that never looks at the destroyed flag or the container.
NeverAbandoned(r) == FALSE

\* destroyed || !containerRef.current, as run r's closure sees them: the
\* container is attached while the mount of run r lasts.
Abandoned(r) == runs[r].destroyed \/ ~(mapMounted /\ r = Len(runs))

\* A "complete" handler that leaves the overlay alone.
CompleteKeepsLoading(destroyed, isLoading) == isLoading

\* map.on("complete", () => { if (!destroyed) setLoading(false) })
OnComplete(destroyed, isLoading) == IF ~destroyed THEN FALSE ELSE isLoading

\* An initMap that checks the key only.
MissingKeyOnly(e) == ~e.key

\* if (!key || !securityCode)
MissingCredentials(e) == ~e.key \/ ~e.securityCode

\* The Map mounts: first render with loading = true, then the effect up to
\* the first await of initMap.
MapMount ==
    /\ ~mapMounted
    /\ Len(runs) < MaxMounts
    /\ mapMounted' = TRUE
    /\ mapInstanceRef' = 0
    /\ IF StartsLoad(loaderPromise, env.key)
       THEN loaderPromise' = "pending" /\ loads' = loads + 1
       ELSE UNCHANGED <<loaderPromise, loads>>
    /\ IF MissingCredentials(env)
       THEN /\ notified' = << Notice("error", "map-config-error") >>
            /\ mapLoading' = FALSE
            /\ runs' = Append(runs, [destroyed |-> FALSE, pc |-> "returned"])
       ELSE /\ notified' = <<>>
            /\ mapLoading' = TRUE
            /\ runs' = Append(runs, [destroyed |-> FALSE, pc |-> "await"])
    /\ lastOp' = [op |-> "mapMount"]
    /\ UNCHANGED <<hookVars, signOut, env, maps>>

\* AMapLoader.load settles.
LoaderSettles(ok) ==
    /\ loaderPromise = "pending"
    /\ loaderPromise' = IF ok THEN "resolved" ELSE "rejected"
    /\ lastOp' = [op |-> "loaderSettles", ok |-> ok]
    /\ notified' = <<>>
    /\ UNCHANGED <<hookVars, signOut, env, loads, mapMounted, mapLoading, runs,
                   maps, mapInstanceRef>>

\* Run r resumes after `await loaderPromise`: it requests the animation frame,
\* or returns when abandoned; a rejection goes to the catch block.
AwaitResumes(r) ==
    /\ runs[r].pc = "await"
    /\ loaderPromise \in {"resolved", "rejected"}
    /\ lastOp' = [op |-> "awaitResumes", run |-> r]
    /\ IF loaderPromise = "resolved"
       THEN /\ runs' = [runs EXCEPT ![r].pc = IF Abandoned(r) THEN "returned"
                                                              ELSE "frame"]
            /\ notified' = <<>>
            /\ UNCHANGED mapLoading
       ELSE /\ runs' = [runs EXCEPT ![r].pc = "returned"]
            /\ IF ~runs[r].destroyed
               THEN /\ notified' = << Notice("error", "map-service-connection-failed") >>
                    /\ mapLoading' = FALSE
               ELSE /\ notified' = <<>>
                    /\ UNCHANGED mapLoading
    /\ UNCHANGED <<hookVars, signOut, env, loaderPromise, loads, mapMounted, maps,
                   mapInstanceRef>>

\* map.destroy() of the instance held in mapInstanceRef, if any
DestroyHeld(ms, ref) == IF ref # 0 THEN [ms EXCEPT ![ref].destroyed = TRUE] ELSE ms

\* The animation frame of run r fires: construct the map, unless abandoned.
FrameFires(r) ==
    /\ runs[r].pc = "frame"
    /\ lastOp' = [op |-> "frameFires", run |-> r]
    /\ notified' = <<>>
    /\ IF Abandoned(r)
       THEN /\ runs' = [runs EXCEPT ![r].pc = "returned"]
            /\ UNCHANGED <<maps, mapInstanceRef>>
       ELSE /\ runs' = [runs EXCEPT ![r].pc = "built"]
            /\ maps' = Append(DestroyHeld(maps, mapInstanceRef),
                              [run |-> r, destroyed |-> FALSE])
            /\ mapInstanceRef' = Len(maps')
    /\ UNCHANGED <<hookVars, signOut, env, loaderPromise, loads, mapMounted,
                   mapLoading>>

\* The map of run r emits "complete".
MapComplete(r) ==
    /\ runs[r].pc = "built"
    /\ runs' = [runs EXCEPT ![r].pc = "ready"]
    /\ mapLoading' = OnComplete(runs[r].destroyed, mapLoading)
    /\ lastOp' = [op |-> "mapComplete", run |-> r]
    /\ notified' = <<>>
    /\ UNCHANGED <<hookVars, signOut, env, loaderPromise, loads, mapMounted, maps,
                   mapInstanceRef>>

\* The map of run r emits "error".
MapError(r) ==
    /\ runs[r].pc = "built"
    /\ runs' = [runs EXCEPT ![r].pc = "failed"]
    /\ lastOp' = [op |-> "mapError", run |-> r]
    /\ IF ~runs[r].destroyed
       THEN /\ notified' = << Notice("error", "map-load-error") >>
            /\ mapLoading' = FALSE
       ELSE /\ notified' = <<>>
            /\ UNCHANGED mapLoading
    /\ UNCHANGED <<hookVars, signOut, env, loaderPromise, loads, mapMounted, maps,
                   mapInstanceRef>>

\* The Map unmounts: the cleanup of the effect sets destroyed, cancels the
\* animation frame and destroys the map held in the ref.
MapUnmount ==
    /\ mapMounted
    /\ mapMounted' = FALSE
    /\ runs' = [runs EXCEPT ![Len(runs)].destroyed = TRUE,
                            ![Len(runs)].pc = IF @ = "frame" THEN "cancelled" ELSE @]
    /\ maps' = DestroyHeld(maps, mapInstanceRef)
    /\ mapInstanceRef' = 0
    /\ lastOp' = [op |-> "mapUnmount"]
    /\ notified' = <<>>
    /\ UNCHANGED <<hookVars, signOut, env, loaderPromise, loads, mapLoading>>

MapInit ==
    /\ env \in Envs
    /\ loaderPromise = "null"
    /\ loads = 0
    /\ mapMounted = FALSE
    /\ mapLoading = TRUE
    /\ runs = <<>>
    /\ maps = <<>>
    /\ mapInstanceRef = 0
    /\ mounted = TRUE
    /\ loading = FALSE
    /\ searched = FALSE
    /\ trackingData = NULL
    /\ isUpdating = FALSE
    /\ subscriptionRef = 0
    /\ channels = <<>>
    /\ calls = <<>>
    /\ timers = <<>>
    /\ signOut = "idle"
    /\ notified = <<>>
    /\ lastOp = [op |-> "init"]

MapNext ==
    \/ MapMount
    \/ \E ok \in BOOLEAN : LoaderSettles(ok)
    \/ \E r \in 1 .. Len(runs) : AwaitResumes(r)
    \/ \E r \in 1 .. Len(runs) : FrameFires(r)
    \/ \E r \in 1 .. Len(runs) : MapComplete(r)
    \/ \E r \in 1 .. Len(runs) : MapError(r)
    \/ MapUnmount

\* The load promise settles, a resumed run and a requested frame get their
\* turn, and a constructed map emits "complete" or "error".
MapSpec ==
    /\ MapInit
    /\ [][MapNext]_vars
    /\ WF_vars(\E ok \in BOOLEAN : LoaderSettles(ok))
    /\ \A r \in 1 .. MaxMounts :
         /\ WF_vars(r <= Len(runs) /\ AwaitResumes(r))
         /\ WF_vars(r <= Len(runs) /\ FrameFires(r))
         /\ WF_vars(r <= Len(runs) /\ (MapComplete(r) \/ MapError(r)))

----------------------------------------------------------------------------
(* The derived views of the hook: mapTrajectories and orderItemsStats,     *)
(* recomputed from trackingData at every render.  Their specification      *)
(* starts from a displayed session whose records carry the stored          *)
(* location, quantity and subtotal fields, and delivers change events to   *)
(* it.                                                                     *)

\* A stored location: missing, a structured pair, or a delimited string
\* (given by the numbers between its delimiters).
Locations ==
    { NULL,
      [kind |-> "pair", longitude |-> 120, latitude |-> 30],
      [kind |-> "pair", longitude |-> 200, latitude |-> 30],
      [kind |-> "string", parts |-> <<120, 30>>],
      [kind |-> "string", parts |-> <<120>>] }

LocatedPoints(orderId) ==
    [order_id : {orderId}, timestamp : {1}, location : Locations]

InRange(longitude, latitude) ==
    longitude \in -180 .. 180 /\ latitude \in -90 .. 90

\* The coordinate parser's entry point for trajectory records: the decoded
\* pair, or NULL when the location is missing, malformed or out of range.
ParseTrajectoryCoordinate(t) ==
    IF t.location = NULL THEN NULL
    ELSE IF t.location.kind = "pair"
    THEN IF InRange(t.location.longitude, t.location.latitude)
         THEN [longitude |-> t.location.longitude, latitude |-> t.location.latitude]
         ELSE NULL
    ELSE IF Len(t.location.parts) = 2
            /\ InRange(t.location.parts[1], t.location.parts[2])
         THEN [longitude |-> t.location.parts[1], latitude |-> t.location.parts[2]]
         ELSE NULL

\* A mapTrajectories that keeps the points without a coordinate.
MapKeepsUnparsed(data) ==
    IF data = NULL THEN <<>>
    ELSE [i \in 1 .. Len(data.trajectories) |->
            LET t == data.trajectories[i]
                coord == ParseTrajectoryCoordinate(t)
            IN  IF coord = NULL THEN t ELSE coord @@ t]

\* mapTrajectories: .map(t => coord ? {...t, ...coord} : null).filter(non-null)
MapTrajectoriesOf(data) ==
    IF data = NULL THEN <<>>
    ELSE LET mapped == [i \in 1 .. Len(data.trajectories) |->
                          LET t == data.trajectories[i]
                              coord == ParseTrajectoryCoordinate(t)
                          IN  IF coord = NULL THEN NULL ELSE coord @@ t]
             NotNull(x) == x # NULL
         IN  SelectSeq(mapped, NotNull)

mapTrajectories == MapTrajectoriesOf(trackingData)

\* A stored subtotal: a number, or the decimal string of one.
Subtotals == { [kind |-> "number", value |-> 30],
               [kind |-> "string", digits |-> <<1, 5>>] }

PricedItems(orderId) ==
    { [order_id |-> orderId, quantity |-> 1, subtotal |-> s] : s \in Subtotals }
    \cup { [order_id |-> orderId, quantity |-> 2,
            subtotal |-> [kind |-> "number", value |-> 30]] }

RECURSIVE ParseDigits(_)
ParseDigits(digits) ==
    IF digits = <<>> THEN 0
    ELSE 10 * ParseDigits(SubSeq(digits, 1, Len(digits) - 1)) + digits[Len(digits)]

\* Number(x)
ToNumber(x) == IF x.kind = "number" THEN x.value ELSE ParseDigits(x.digits)

\* items.reduce((sum, item) => sum + Number(item.subtotal), sum)
RECURSIVE ReduceSubtotal(_, _)
ReduceSubtotal(items, sum) ==
    IF items = <<>> THEN sum
    ELSE ReduceSubtotal(Tail(items), sum + ToNumber(Head(items).subtotal))

\* items.reduce((sum, item) => sum + item.quantity, sum)
RECURSIVE ReduceQuantity(_, _)
ReduceQuantity(items, sum) ==
    IF items = <<>> THEN sum
    ELSE ReduceQuantity(Tail(items), sum + Head(items).quantity)

\* An orderItemsStats that recomputes the amount from the quantities.
StatsCountQuantityTwice(data) ==
    IF data = NULL
    THEN [totalAmount |-> 0, totalQuantity |-> 0, itemCount |-> 0]
    ELSE [totalAmount |-> ReduceQuantity(data.orderItems, 0),
          totalQuantity |-> ReduceQuantity(data.orderItems, 0),
          itemCount |-> Len(data.orderItems)]

\* orderItemsStats
OrderItemsStatsOf(data) ==
    IF data = NULL
    THEN [totalAmount |-> 0, totalQuantity |-> 0, itemCount |-> 0]
    ELSE [totalAmount |-> ReduceSubtotal(data.orderItems, 0),
          totalQuantity |-> ReduceQuantity(data.orderItems, 0),
          itemCount |-> Len(data.orderItems)]

orderItemsStats == OrderItemsStatsOf(trackingData)

\* The totals OrderItemsCard computes from its orderItems prop
CardTotals(orderItems) ==
    [totalAmount |-> ReduceSubtotal(orderItems, 0),
     totalQuantity |-> ReduceQuantity(orderItems, 0)]

\* The sessions a search for order 1 publishes
LocatedSessions ==
    [order : { o \in StoredOrders : o.id = 1 },
     trajectories : SeqsUpTo(LocatedPoints(1), MaxTrajectories - 1),
     orderItems : SeqsUpTo(PricedItems(1), 2)]

\* Nothing searched yet, or a search for order 1 has just published its
\* session and subscribed.
ViewInit ==
    /\ mounted = TRUE
    /\ loading = FALSE
    /\ isUpdating = FALSE
    /\ timers = <<>>
    /\ signOut = "idle"
    /\ env = [key |-> TRUE, securityCode |-> TRUE]
    /\ loaderPromise = "null"
    /\ loads = 0
    /\ mapMounted = FALSE
    /\ mapLoading = TRUE
    /\ runs = <<>>
    /\ maps = <<>>
    /\ mapInstanceRef = 0
    /\ notified = <<>>
    /\ \/ /\ trackingData = NULL
          /\ searched = FALSE
          /\ subscriptionRef = 0
          /\ channels = <<>>
          /\ calls = <<>>
          /\ lastOp = [op |-> "init"]
       \/ /\ trackingData \in LocatedSessions
          /\ searched = TRUE
          /\ subscriptionRef = 1
          /\ channels = << [orderId |-> 1, active |-> TRUE] >>
          /\ calls = << Done >>
          /\ lastOp = [op |-> "fetchesSettle",
                       trajectoriesResult |->
                          [error |-> NULL, data |-> [rows |-> trackingData.trajectories]],
                       orderItemsResult |->
                          [error |-> NULL, data |-> [rows |-> trackingData.orderItems]]]

ViewNext ==
    \/ \E c \in ChannelIds :
         \E o \in Orders : DeliverUpdate(c, o)
    \/ \E c \in ChannelIds :
         \E t \in LocatedPoints(channels[c].orderId) : DeliverInsert(c, t)
    \/ TimerFires

ViewSpec == ViewInit /\ [][ViewNext]_vars

----------------------------------------------------------------------------
(* Properties *)

HeldActive == subscriptionRef # 0 /\ Active(channels[subscriptionRef])

\* An order number that is empty or holds nothing but whitespace.
AllWhitespace(s) == \A k \in 1 .. Len(s) : s[k] \in Whitespace

\* Channel c is the subscription of the session on display.
IsCurrent(c) ==
    /\ mounted
    /\ trackingData # NULL
    /\ c = subscriptionRef
    /\ channels[c].orderId = trackingData.order.id

(* C1: in every reachable state at most one channel is created and not yet *)
(* removed, and a channel that is not the held one has been removed: each  *)
(* subscribe removed the held channel before creating the next.            *)
C1_AtMostOneSubscription ==
    /\ Cardinality(ActiveChannels) <= 1
    /\ \A c \in ChannelIds : Active(channels[c]) => c = subscriptionRef

\* A second subscription replaced the first, which was still active.
C1_Witness ==
    /\ lastOp.op = "fetchesSettle"
    /\ Len(channels) = 2
    /\ ~Active(channels[1])
    /\ Active(channels[2])
    /\ subscriptionRef = 2

(* C2: when handleSearch has just been called with a non-blank order       *)
(* number, the subscription of the previous session has been released: no  *)
(* subscription is active when the lookup is issued.                       *)
C2_ReleasedBeforeLookup ==
    (lastOp.op = "handleSearch" /\ ~AllWhitespace(lastOp.orderNumber))
        => ActiveChannels = {}

(* C3: no subscription is active in any state after the unmount, also when *)
(* a fetch that was in flight at the unmount resolves later.               *)
C3_NoSubscriptionAfterUnmount == ~mounted => ActiveChannels = {}

(* C4: handleSearch with an empty or whitespace-only order number issues   *)
(* no fetch, leaves loading, searched, trackingData, isUpdating and the    *)
(* held subscription as they were, and shows no message.                   *)
C4_BlankSearchIsNoOp ==
    [][ (lastOp'.op = "handleSearch" /\ AllWhitespace(lastOp'.orderNumber))
          => /\ UNCHANGED <<loading, searched, trackingData, isUpdating,
                            subscriptionRef, channels, calls, timers>>
             /\ notified' = <<>> ]_vars

\* A whitespace-only search was submitted while a session with a live
\* subscription was on display.
C4_Witness ==
    /\ lastOp.op = "handleSearch"
    /\ lastOp.orderNumber # <<>>
    /\ AllWhitespace(lastOp.orderNumber)
    /\ trackingData # NULL
    /\ HeldActive
    /\ searched

(* C5: the trajectory list of the session is newest-first in every state,  *)
(* also after a trajectory-inserted event older than the head.             *)
C5_NewestFirst ==
    trackingData # NULL => IsNewestFirst(trackingData.trajectories)

(* C6: a trajectory-inserted event delivered while a session is active     *)
(* makes the list one longer, with the event's record first and the        *)
(* previous elements after it in their order; order and items stay.        *)
C6_InsertPrepends ==
    [][ (lastOp'.op = "INSERT" /\ trackingData # NULL)
          => /\ trackingData' # NULL
             /\ Len(trackingData'.trajectories) = Len(trackingData.trajectories) + 1
             /\ trackingData'.trajectories[1] = lastOp'.record
             /\ Tail(trackingData'.trajectories) = trackingData.trajectories
             /\ trackingData'.order = trackingData.order
             /\ trackingData'.orderItems = trackingData.orderItems ]_vars

\* An older point was inserted into a session that held a point and an item,
\* while the updating indicator was already set.
C6_Witness ==
    /\ lastOp.op = "INSERT"
    /\ lastOp.wasUpdating
    /\ trackingData # NULL
    /\ Len(trackingData.trajectories) = 2
    /\ trackingData.trajectories[1] # trackingData.trajectories[2]
    /\ trackingData.orderItems # <<>>

(* C7: an order-updated event delivered while a session is active replaces *)
(* the order record by the event's record and leaves the trajectory list   *)
(* and the item list unchanged.                                            *)
C7_UpdateReplacesOrderOnly ==
    [][ (lastOp'.op = "UPDATE" /\ trackingData # NULL)
          => /\ trackingData' # NULL
             /\ trackingData'.order = lastOp'.record
             /\ trackingData'.trajectories = trackingData.trajectories
             /\ trackingData'.orderItems = trackingData.orderItems ]_vars

\* An update changed the status of a session that holds a point and an item.
C7_Witness ==
    /\ lastOp.op = "UPDATE"
    /\ trackingData # NULL
    /\ trackingData.order.status = "delivered"
    /\ trackingData.trajectories # <<>>
    /\ trackingData.orderItems # <<>>

(* C8: every change event the listener handles, order-updated as well as   *)
(* trajectory-inserted, hands one notification to the notifier.            *)
C8_EveryEventNotifies ==
    lastOp.op \in {"UPDATE", "INSERT"} => Len(notified) = 1

(* C9: the indicator is set as long as the timer of the latest event is    *)
(* pending, that is for 1.5 s after the latest event: an older timer does  *)
(* not clear it.                                                           *)
C9_TimerSuperseded == timers # <<>> => isUpdating

(* C10: an event delivered by a channel that is not the subscription of    *)
(* the session on display changes neither trackingData nor isUpdating and  *)
(* shows no message.                                                       *)
C10_StaleEventDiscarded ==
    [][ (lastOp'.op \in {"UPDATE", "INSERT"} /\ ~IsCurrent(lastOp'.channel))
          => /\ trackingData' = trackingData
             /\ isUpdating' = isUpdating
             /\ notified' = <<>> ]_vars

\* The lookup of a search has just ended with "no such order".
NotFoundNotices == << Notice("error", "order-not-found-check-number") >>

(* C11: when the lookup of a search returns no order, the search ends with *)
(* searched = true, trackingData = null and loading = false, with exactly  *)
(* one error notification carrying the not-found text; the call returns    *)
(* without issuing the secondary fetches and creates no subscription.      *)
C11_NotFoundLeavesEmptySession ==
    [][ (lastOp'.op = "lookupSettles" /\ notified' = NotFoundNotices)
          => /\ searched'
             /\ trackingData' = NULL
             /\ ~loading'
             /\ \A i \in 1 .. Len(calls) : calls'[i] # calls[i] => calls'[i] = Done
             /\ UNCHANGED <<subscriptionRef, channels>> ]_vars

(* C12: when the lookup has succeeded and the trajectory fetch, the item   *)
(* fetch or both fail, the search still publishes a session that holds the *)
(* order, with each failed list empty and each successful list as the      *)
(* store returned it; it shows no notification and it still subscribes to  *)
(* the order found.                                                        *)
C12_SecondaryFailureIsNotFatal ==
    [][ ( /\ lastOp'.op = "fetchesSettle"
          /\ \/ lastOp'.trajectoriesResult.error # NULL
             \/ lastOp'.orderItemsResult.error # NULL )
          => /\ trackingData' # NULL
             /\ \E i \in 1 .. Len(calls) :
                  /\ calls[i].pc = "fetch"
                  /\ calls'[i] = Done
                  /\ trackingData'.order = calls[i].orderData
             /\ trackingData'.trajectories =
                  IF lastOp'.trajectoriesResult.error # NULL
                  THEN <<>> ELSE lastOp'.trajectoriesResult.data.rows
             /\ trackingData'.orderItems =
                  IF lastOp'.orderItemsResult.error # NULL
                  THEN <<>> ELSE lastOp'.orderItemsResult.data.rows
             /\ notified' = <<>>
             /\ ~loading'
             /\ subscriptionRef' # 0
             /\ Active(channels'[subscriptionRef'])
             /\ channels'[subscriptionRef'].orderId = trackingData'.order.id ]_vars

\* The item fetch failed and the trajectory fetch returned a point: the
\* session holds the point and no item, and its subscription is live.
C12_Witness ==
    /\ lastOp.op = "fetchesSettle"
    /\ lastOp.orderItemsResult.error # NULL
    /\ lastOp.trajectoriesResult.error = NULL
    /\ trackingData # NULL
    /\ trackingData.trajectories # <<>>
    /\ trackingData.orderItems = <<>>
    /\ notified = <<>>
    /\ HeldActive
    /\ channels[subscriptionRef].orderId = trackingData.order.id

(* C13: every search that was started clears the loading indicator once    *)
(* its store calls have returned: whenever loading is true it is false     *)
(* again later, whatever the store returned.                               *)
C13_LoadingEventuallyClears == loading ~> ~loading

\* A search ended on the error path, one on the not-found path and one by
\* publishing a session; each left loading false.
C13_Witness ==
    /\ ~loading
    /\ searched
    /\ lastOp.op \in {"lookupSettles", "fetchesSettle"}
    /\ \A i \in 1 .. Len(calls) : calls[i] = Done
    /\ Len(calls) = MaxSearches

\* The lookup of a search has just ended with an error of the store.
StoreErrorNotices == { << Notice("error", ErrorMessage(e)) >> : e \in StoreErrors }

(* C14: when the lookup of a search returns a store error, exactly one     *)
(* error notification is shown, the session is left empty (trackingData =  *)
(* null), no subscription is created, and the call returns: it issues no   *)
(* further fetch and is not retried.                                       *)
C14_StoreErrorLeavesEmptySession ==
    [][ /\ (lastOp'.op = "lookupSettles" /\ notified' \in StoreErrorNotices)
          => /\ trackingData' = NULL
             /\ ~loading'
             /\ \A i \in 1 .. Len(calls) : calls'[i] # calls[i] => calls'[i] = Done
             /\ UNCHANGED <<subscriptionRef, channels>>
        /\ \A i \in 1 .. Len(calls) : calls[i] = Done => calls'[i] = Done ]_vars

\* The steps that hand the held channel, if any, to supabase.removeChannel
RemovingOps == {"fetchesSettle", "cleanupSubscription", "unmount"}

(* C15: no channel is removed twice: whenever a step hands the held channel *)
(* to removeChannel, that channel has not been removed before.             *)
C15_RemovedAtMostOnce ==
    [][ (lastOp'.op \in RemovingOps /\ subscriptionRef # 0)
          => Active(channels[subscriptionRef]) ]_vars

(* C16: cleanupSubscription called when no subscription was ever created   *)
(* makes no call to the change feed and changes no state of the hook.      *)
C16_CleanupWithoutSubscriptionIsNoOp ==
    [][ (lastOp'.op = "cleanupSubscription" /\ subscriptionRef = 0)
          => /\ UNCHANGED hookVars
             /\ notified' = <<>> ]_vars

\* cleanupSubscription ran while a first search was in flight and nothing
\* had been subscribed to yet.
C16_Witness ==
    /\ lastOp.op = "cleanupSubscription"
    /\ subscriptionRef = 0
    /\ channels = <<>>
    /\ loading
    /\ searched
    /\ \E i \in 1 .. Len(calls) : calls[i].pc = "fetch"

(* C17: on logout the subscription is released before the sign-out is      *)
(* issued, and no subscription is active from the moment the sign-out      *)
(* starts, for as long as it is awaited.                                   *)
C17_NoSubscriptionWhileSigningOut == signOut = "pending" => ActiveChannels = {}

\* The map instances that were constructed and not destroyed
LiveMaps == { m \in 1 .. Len(maps) : ~maps[m].destroyed }

(* C18: the SDK load is started at most once, however often the Map is     *)
(* mounted, unmounted and remounted, also when it is remounted while the   *)
(* first load is in flight; a run that awaits, awaits the one promise that *)
(* load created.                                                           *)
C18_SingleSdkLoad ==
    /\ loads <= 1
    /\ loads = 1 <=> loaderPromise # "null"
    /\ \A r \in 1 .. Len(runs) : runs[r].pc = "await" => loaderPromise # "null"

\* The Map was remounted while the load of the first mount was in flight:
\* both runs await the one pending promise.
C18_Witness ==
    /\ env.key /\ env.securityCode
    /\ Len(runs) = 2
    /\ runs[1].pc = "await"
    /\ runs[2].pc = "await"
    /\ mapMounted
    /\ loaderPromise = "pending"
    /\ loads = 1

(* C19: a run whose Map has unmounted owns no undestroyed map: none is      *)
(* constructed for it after the unmount, whether the unmount came during   *)
(* the load or while the animation frame was pending, and those it had     *)
(* constructed were destroyed; at most one map exists undestroyed.         *)
C19_NoMapOutlivesItsMount ==
    /\ \A m \in 1 .. Len(maps) : runs[maps[m].run].destroyed => maps[m].destroyed
    /\ Cardinality(LiveMaps) <= 1

\* The first mount ended during the load; after the load resolved, the
\* second mount constructed its map and then the run of the first resumed
\* and returned without constructing one.
C19_Witness ==
    /\ lastOp = [op |-> "awaitResumes", run |-> 1]
    /\ runs[1].destroyed
    /\ runs[1].pc = "returned"
    /\ loaderPromise = "resolved"
    /\ Len(runs) = 2
    /\ maps = << [run |-> 2, destroyed |-> FALSE] >>
    /\ mapInstanceRef = 1

(* C20: while the Map stays mounted its loading state becomes false:       *)
(* whenever the Map is mounted and loading, later it is not loading or it  *)
(* has unmounted, given that the load promise settles and a constructed    *)
(* map emits complete or error.                                            *)
C20_MapLoadingEventuallyClears ==
    (mapMounted /\ mapLoading) ~> (~mapLoading \/ ~mapMounted)

\* A constructed map emitted "complete" and the overlay of its mount went.
C20_Witness ==
    /\ lastOp.op = "mapComplete"
    /\ mapMounted
    /\ ~mapLoading
    /\ runs[Len(runs)].pc = "ready"
    /\ mapInstanceRef # 0

(* C21: when the key or the security code is missing, a mount of the Map   *)
(* shows exactly one configuration error and sets loading to false; no map *)
(* instance is constructed, and no later step of that mount shows another  *)
(* message or sets loading again.                                          *)
C21_MissingCredentialsError ==
    [][ (~env.key \/ ~env.securityCode)
          => /\ lastOp'.op = "mapMount"
                  => /\ notified' = << Notice("error", "map-config-error") >>
                     /\ ~mapLoading'
             /\ lastOp'.op # "mapMount"
                  => /\ notified' = <<>>
                     /\ mapLoading' = mapLoading
             /\ maps' = <<>>
             /\ \A r \in 1 .. Len(runs') : runs'[r].pc = "returned" ]_vars

\* The Map was mounted with a key and without a security code: the load was
\* started, the error is shown and the overlay is gone.
C21_Witness ==
    /\ lastOp.op = "mapMount"
    /\ env.key /\ ~env.securityCode
    /\ loaderPromise = "pending"
    /\ notified = << Notice("error", "map-config-error") >>
    /\ ~mapLoading
    /\ mapMounted
    /\ maps = <<>>

(* C22: a failed SDK load is re-triable: a mount of the Map that finds the *)
(* shared load promise rejected starts a new load instead of awaiting the  *)
(* rejected one.                                                           *)
C22_RejectedLoadIsRetried ==
    [][ (lastOp'.op = "mapMount" /\ loaderPromise = "rejected")
          => /\ loads' = loads + 1
             /\ loaderPromise' = "pending" ]_vars

\* The trajectory list the timeline shows
Timeline == IF trackingData = NULL THEN <<>> ELSE trackingData.trajectories

\* The positions of the timeline whose point the parser resolves
Resolved == { i \in 1 .. Len(Timeline) : ParseTrajectoryCoordinate(Timeline[i]) # NULL }

\* The k-th of them, counted from the head
NthResolved(k) == CHOOSE i \in Resolved : Cardinality({ j \in Resolved : j <= i }) = k

(* C23: in every state mapTrajectories holds, in the order of the session's *)
(* list, exactly the points the coordinate parser resolves, each with its  *)
(* coordinate; it is empty when there is no session; and the session's     *)
(* list keeps every point: an inserted point the parser cannot resolve     *)
(* still makes that list one longer.                                       *)
C23_MapTrajectoriesIsResolvedSubsequence ==
    /\ [] /\ Len(mapTrajectories) = Cardinality(Resolved)
          /\ \A k \in 1 .. Len(mapTrajectories) :
               LET t == Timeline[NthResolved(k)]
                   m == mapTrajectories[k]
               IN  /\ m.order_id = t.order_id
                   /\ m.timestamp = t.timestamp
                   /\ m.location = t.location
                   /\ [longitude |-> m.longitude, latitude |-> m.latitude]
                        = ParseTrajectoryCoordinate(t)
          /\ trackingData = NULL => mapTrajectories = <<>>
    /\ [][ (lastOp'.op = "INSERT" /\ trackingData # NULL)
             => /\ Len(Timeline') = Len(Timeline) + 1
                /\ Timeline'[1] = lastOp'.record ]_vars

\* A point without a usable location was inserted before a point with one:
\* the timeline has both, the map has the second only.
C23_Witness ==
    /\ lastOp.op = "INSERT"
    /\ Len(Timeline) = 2
    /\ ParseTrajectoryCoordinate(Timeline[1]) = NULL
    /\ Timeline[2].location = [kind |-> "string", parts |-> <<120, 30>>]
    /\ Len(mapTrajectories) = 1
    /\ mapTrajectories[1].longitude = 120
    /\ mapTrajectories[1].latitude = 30

\* The item list of the session, empty when there is none
SessionItems == IF trackingData = NULL THEN <<>> ELSE trackingData.orderItems

\* values[1] + ... + values[n]
RECURSIVE SumTo(_, _)
SumTo(values, n) == IF n = 0 THEN 0 ELSE SumTo(values, n - 1) + values[n]

(* C24: in every state orderItemsStats is (sum of the subtotals, sum of    *)
(* the quantities, number of line items) of the session's item list,       *)
(* (0, 0, 0) when there is no session, and its two sums are the totals     *)
(* OrderItemsCard computes from that list; no change event alters them.    *)
C24_ItemStatsAreTotals ==
    /\ [] /\ orderItemsStats =
               [totalAmount |->
                  SumTo([i \in 1 .. Len(SessionItems) |-> ToNumber(SessionItems[i].subtotal)],
                        Len(SessionItems)),
                totalQuantity |->
                  SumTo([i \in 1 .. Len(SessionItems) |-> SessionItems[i].quantity],
                        Len(SessionItems)),
                itemCount |-> Len(SessionItems)]
          /\ trackingData = NULL
               => orderItemsStats = [totalAmount |-> 0, totalQuantity |-> 0, itemCount |-> 0]
          /\ trackingData # NULL
               => /\ orderItemsStats.totalAmount = CardTotals(SessionItems).totalAmount
                  /\ orderItemsStats.totalQuantity = CardTotals(SessionItems).totalQuantity
    /\ [][ lastOp'.op \in {"UPDATE", "INSERT"}
             => OrderItemsStatsOf(trackingData') = OrderItemsStatsOf(trackingData) ]_vars

\* A session with two line items, one of them with its subtotal stored as a
\* string, after an order update and an insert: 30 + 15 for 3 pieces.
C24_Witness ==
    /\ lastOp.op = "INSERT"
    /\ trackingData # NULL
    /\ trackingData.order.status = "delivered"
    /\ Len(trackingData.orderItems) = 2
    /\ trackingData.orderItems[1].subtotal.kind = "string"
    /\ orderItemsStats = [totalAmount |-> 45, totalQuantity |-> 3, itemCount |-> 2]

(* C25: whenever a session is displayed and a subscription is active, the  *)
(* active subscription is scoped to the id of the displayed order, under   *)
(* any interleaving of overlapping searches and events.                    *)
C25_SubscriptionMatchesDisplayedOrder ==
    trackingData # NULL
      => \A c \in ChannelIds :
           Active(channels[c]) => channels[c].orderId = trackingData.order.id

\* Two overlapping searches for different orders have both published; the
\* session and the one live channel are those of the order published last.
C25_Witness ==
    /\ lastOp.op = "fetchesSettle"
    /\ Len(channels) = 2
    /\ channels[1].orderId # channels[2].orderId
    /\ ~Active(channels[1])
    /\ Active(channels[2])
    /\ trackingData # NULL
    /\ trackingData.order.id = channels[2].orderId
    /\ \A i \in 1 .. Len(calls) : calls[i] = Done

(* C26: a search that resolves after a search submitted later has          *)
(* completed does not overwrite what the later search left: its settling   *)
(* changes neither the session nor the subscription.                       *)
C26_LastSubmittedSearchWins ==
    [][ \A i \in 1 .. Len(calls) :
          ( /\ calls[i].pc = "fetch"
            /\ calls'[i] = Done
            /\ \E j \in i + 1 .. Len(calls) : calls[j] = Done )
            => UNCHANGED <<trackingData, subscriptionRef, channels>> ]_vars

(* C27: loading is true in every state in which a search is in flight:     *)
(* the completion of one search does not clear it while another is still   *)
(* pending.                                                                *)
C27_LoadingWhileAnySearchInFlight ==
    (\E i \in 1 .. Len(calls) : calls[i] # Done) => loading

(* C28: while the tracking view is mounted and no sign-out is pending,     *)
(* every displayed session is live: whenever trackingData is non-null the  *)
(* held subscription is active and is the one of the displayed order, also *)
(* after a logout whose sign-out failed.                                   *)
C28_DisplayedSessionIsLive ==
    (mounted /\ signOut = "idle" /\ trackingData # NULL)
      => /\ HeldActive
         /\ channels[subscriptionRef].orderId = trackingData.order.id

====
